---- MODULE Spec2Model ----
(***************************************************************************)
(* Fx.Transitions (src/Effects/Fx.Transitions.js): the registry of easing   *)
(* curves, the derivation of easeIn / easeOut / easeInOut from a raw curve, *)
(* the parameter binder (.set) and the built-in curve formulas.             *)
(*                                                                          *)
(* Numbers.  A JavaScript number is modelled exactly where its value is     *)
(* rational: a rational is a pair <<n, d>> in lowest terms with d > 0.      *)
(* A value is a record [a, b, t] standing for a + b * t, where t is an      *)
(* irrational atom (pi, a square root, a sine, a power of two with a        *)
(* fractional exponent); b = 0 and t = the atom "one" for a rational.       *)
(* NaN, undefined and the two infinities are values of their own.           *)
(* Rounding of IEEE doubles is not modelled.                                *)
(***************************************************************************)
EXTENDS Integers, Sequences, FiniteSets, TLC

(* ------------------------------ bounds --------------------------------- *)
\* progress fractions sampled: k / (2 * GridHalf) for k in 0 .. 2 * GridHalf
GridHalf == 2
\* keys the extend calls made after the file has loaded register in all
MaxAdded == 3
\* bound curves (results of .set) the caller holds at one time
MaxBound == 2

(* ----------------------------- rationals -------------------------------- *)
Abs(i) == IF i < 0 THEN -i ELSE i

RECURSIVE GCD(_, _)
GCD(m, n) == IF n = 0 THEN m ELSE GCD(n, m % n)

Norm(n, d) ==
  LET g == GCD(Abs(n), Abs(d))
      s == IF d < 0 THEN -1 ELSE 1
  IN  <<(s * n) \div g, (s * d) \div g>>

R(n, d) == Norm(n, d)
RZero == <<0, 1>>
ROne == <<1, 1>>
RAdd(p, q) == Norm(p[1] * q[2] + q[1] * p[2], p[2] * q[2])
RSub(p, q) == Norm(p[1] * q[2] - q[1] * p[2], p[2] * q[2])
RMul(p, q) == Norm(p[1] * q[1], p[2] * q[2])
RDiv(p, q) == Norm(p[1] * q[2], p[2] * q[1])
RNeg(p) == <<-p[1], p[2]>>
RLess(p, q) == p[1] * q[2] < q[1] * p[2]
RLeq(p, q) == p[1] * q[2] <= q[1] * p[2]
RIsInt(p) == p[2] = 1
RSign(p) == IF p[1] < 0 THEN -1 ELSE IF p[1] = 0 THEN 0 ELSE 1

RECURSIVE RPow(_, _)
RPow(p, k) == IF k = 0 THEN ROne ELSE RMul(p, RPow(p, k - 1))

\* the integer square root of a perfect square, -1 otherwise
ISqrt(n) == IF \E k \in 0..n : k * k = n THEN CHOOSE k \in 0..n : k * k = n ELSE -1

(* ------------------------------- values --------------------------------- *)
Atom(f, x, y) == [f |-> f, x |-> x, y |-> y]
NoAtom == Atom("one", RZero, RZero)
Num(r) == [a |-> r, b |-> RZero, t |-> NoAtom]
Special(f, s) == [a |-> s, b |-> RZero, t |-> Atom(f, RZero, RZero)]
NaN == Special("NaN", RZero)
undefined == Special("undefined", RZero)
Infinity == Special("Infinity", ROne)
NegInfinity == Special("Infinity", RNeg(ROne))
\* a real number this representation cannot hold (never produced by the
\* curves on the sampled inputs)
Unrep == Special("unrepresented", RZero)
Irr(f, x, y) == [a |-> RZero, b |-> ROne, t |-> Atom(f, x, y)]
Aff(a, b, t) == IF b = RZero THEN Num(a) ELSE [a |-> a, b |-> b, t |-> t]

IsRat(v) == v.t.f = "one"
IsInf(v) == v.t.f = "Infinity"
IsBad(v) == v.t.f \in {"NaN", "undefined", "unrepresented"}
IsFinite(v) == ~IsBad(v) /\ ~IsInf(v)
IsZero(v) == v = Num(RZero)

\* ToBoolean: undefined, NaN and 0 are falsy
Truthy(v) == ~(v = undefined \/ v = NaN \/ IsZero(v))
\* a default that replaces an omitted argument only
OrElse_UndefinedOnly(v, d) == IF v = undefined THEN d ELSE v

\* the JavaScript expression  v || d
OrElse(v, d) == IF Truthy(v) THEN v ELSE d

Bad2(u, v) == IF u = Unrep \/ v = Unrep THEN Unrep ELSE NaN

Add(u, v) ==
  IF IsBad(u) \/ IsBad(v) THEN Bad2(u, v)
  ELSE IF IsInf(u) /\ IsInf(v) THEN (IF u = v THEN u ELSE NaN)
  ELSE IF IsInf(u) THEN u
  ELSE IF IsInf(v) THEN v
  ELSE IF IsRat(v) THEN Aff(RAdd(u.a, v.a), u.b, u.t)
  ELSE IF IsRat(u) THEN Aff(RAdd(u.a, v.a), v.b, v.t)
  ELSE IF u.t = v.t THEN Aff(RAdd(u.a, v.a), RAdd(u.b, v.b), u.t)
  ELSE Unrep

Neg(v) ==
  IF IsBad(v) THEN v
  ELSE IF IsInf(v) THEN Special("Infinity", RNeg(v.a))
  ELSE Aff(RNeg(v.a), RNeg(v.b), v.t)

Sub(u, v) == Add(u, Neg(v))

Scale(r, v) == IF r = RZero THEN Num(RZero) ELSE Aff(RMul(r, v.a), RMul(r, v.b), v.t)

Mul(u, v) ==
  IF IsBad(u) \/ IsBad(v) THEN Bad2(u, v)
  ELSE IF IsInf(u) \/ IsInf(v) THEN
    (IF IsZero(u) \/ IsZero(v) THEN NaN
     ELSE IF IsRat(u) \/ IsRat(v) \/ (IsInf(u) /\ IsInf(v))
       THEN Special("Infinity", R(RSign(u.a) * RSign(v.a), 1))
     ELSE Unrep)
  ELSE IF IsRat(u) THEN Scale(u.a, v)
  ELSE IF IsRat(v) THEN Scale(v.a, u)
  ELSE IF u.a = RZero /\ v.a = RZero /\ u.t.f = "pow2" /\ v.t.f = "sqrt"
    THEN Aff(RZero, RMul(u.b, v.b), Atom("pow2*sqrt", u.t.x, v.t.x))
  ELSE IF u.a = RZero /\ v.a = RZero /\ u.t.f = "pow2" /\ v.t.f = "sin"
    THEN Aff(RZero, RMul(u.b, v.b), Atom("pow2*sin", u.t.x, v.t.x))
  ELSE Unrep

Div(u, v) ==
  IF IsBad(u) \/ IsBad(v) THEN Bad2(u, v)
  ELSE IF IsInf(v) THEN (IF IsInf(u) THEN NaN ELSE Num(RZero))
  ELSE IF IsZero(v) THEN
    (IF IsZero(u) THEN NaN
     ELSE IF IsInf(u) THEN u
     ELSE IF IsRat(u) THEN Special("Infinity", R(RSign(u.a), 1))
     ELSE Unrep)
  ELSE IF ~IsRat(v) THEN Unrep
  ELSE IF IsInf(u) THEN Special("Infinity", R(RSign(u.a) * RSign(v.a), 1))
  ELSE Scale(RDiv(ROne, v.a), u)

\* the relational operators: a comparison with NaN or undefined is false
Less(u, v) == IsRat(u) /\ IsRat(v) /\ RLess(u.a, v.a)
Leq(u, v) == IsRat(u) /\ IsRat(v) /\ RLeq(u.a, v.a)

(* ------------------------- the Math functions --------------------------- *)
\* Math.PI
PI == Irr("pi", RZero, RZero)

\* Math.sqrt of a non-negative rational
SqrtR(r) ==
  IF ISqrt(r[1]) >= 0 /\ ISqrt(r[2]) >= 0 THEN Num(<<ISqrt(r[1]), ISqrt(r[2])>>)
  ELSE Irr("sqrt", r, RZero)

\* b reduced to the interval [0, 2)
RMod2(b) == Norm(b[1] % (2 * b[2]), b[2])

\* sin(b * pi) for a rational b: rational exactly at the multiples of pi/6
\* whose sine is 0, 1/2 or 1 (Niven), a square root at the other multiples
\* of pi/6, an atom elsewhere
SinPi(b) ==
  LET m == RMod2(b)
      k == RMul(<<6, 1>>, m)
      half == Num(R(1, 2))
      r3 == SqrtR(R(3, 4))
  IN  IF RIsInt(k) THEN
        CASE k[1] \in {0, 6} -> Num(RZero)
          [] k[1] \in {1, 5} -> half
          [] k[1] \in {2, 4} -> r3
          [] k[1] = 3 -> Num(ROne)
          [] k[1] \in {7, 11} -> Neg(half)
          [] k[1] \in {8, 10} -> Neg(r3)
          [] k[1] = 9 -> Neg(Num(ROne))
      ELSE Irr("sin", m, RZero)

IsPiMultiple(v) == IsFinite(v) /\ v.a = RZero /\ v.t.f = "pi"

\* Math.acos
MathAcos(v) ==
  IF ~IsFinite(v) THEN NaN
  ELSE IF ~IsRat(v) THEN Unrep
  ELSE IF RLess(ROne, v.a) \/ RLess(v.a, RNeg(ROne)) THEN NaN
  ELSE IF v.a = ROne THEN Num(RZero)
  ELSE IF v.a = RZero THEN Scale(R(1, 2), PI)
  ELSE IF v.a = RNeg(ROne) THEN PI
  ELSE IF v.a = R(1, 2) THEN Scale(R(1, 3), PI)
  ELSE IF v.a = R(-1, 2) THEN Scale(R(2, 3), PI)
  ELSE Irr("acos", v.a, RZero)

\* Math.sin; the sine of an arc cosine is sqrt(1 - x^2)
MathSin(v) ==
  IF ~IsFinite(v) THEN (IF v = Unrep THEN Unrep ELSE NaN)
  ELSE IF IsZero(v) THEN Num(RZero)
  ELSE IF IsPiMultiple(v) THEN SinPi(v.b)
  ELSE IF v = Irr("acos", v.t.x, RZero) THEN SqrtR(RSub(ROne, RMul(v.t.x, v.t.x)))
  ELSE Unrep

\* Math.cos
MathCos(v) ==
  IF ~IsFinite(v) THEN (IF v = Unrep THEN Unrep ELSE NaN)
  ELSE IF IsZero(v) THEN Num(ROne)
  ELSE IF IsPiMultiple(v) THEN SinPi(RAdd(v.b, R(1, 2)))
  ELSE Unrep

\* Math.pow: anything to the power 0 is 1; 2 to a fractional power is
\* irrational
MathPow(b, e) ==
  IF IsZero(e) THEN Num(ROne)
  ELSE IF IsBad(b) \/ IsBad(e) THEN Bad2(b, e)
  ELSE IF ~IsRat(b) \/ ~IsRat(e) THEN Unrep
  ELSE IF RIsInt(e.a) THEN
    (IF e.a[1] > 0 THEN Num(RPow(b.a, e.a[1]))
     ELSE IF b.a = RZero THEN Infinity
     ELSE Num(RDiv(ROne, RPow(b.a, -e.a[1]))))
  ELSE IF b.a = ROne THEN Num(ROne)
  ELSE IF b.a = R(2, 1) THEN Irr("pow2", e.a, RZero)
  ELSE Unrep

(* ----------------------- arguments of a call ---------------------------- *)
\* the i-th actual argument, undefined when the call passes fewer
Arg(args, i) == IF i <= Len(args) THEN args[i] ELSE undefined
IntV(n) == Num(<<n, 1>>)
Dec(n, d) == Num(R(n, d))

(* -------------------------- the raw curves ------------------------------ *)
linear(t, c, d) == Mul(c, Div(t, d))

Pow(p, x) ==
  LET x1 == OrElse(x, IntV(6))
  IN  MathPow(p, x1)

\* Expo with the exponent scaled by 10 instead of 8
Expo_Ten(p) == MathPow(IntV(2), Mul(IntV(10), Sub(p, IntV(1))))

Expo(p) == MathPow(IntV(2), Mul(IntV(8), Sub(p, IntV(1))))

Circ(p) == Sub(IntV(1), MathSin(MathAcos(p)))

Sine(p) == Sub(IntV(1), MathSin(Div(Mul(Sub(IntV(1), p), PI), IntV(2))))

Back(p, x) ==
  LET x1 == OrElse(x, Dec(16180, 10000))
  IN  Mul(MathPow(p, IntV(2)), Sub(Mul(Add(x1, IntV(1)), p), x1))

Bounce(p0) ==
  LET b == Dec(75625, 10000)
      d == Dec(275, 100)
      p == Sub(IntV(1), p0)
      seg(shift, base) ==
        LET q == Sub(p, Div(shift, d)) IN Add(Mul(Mul(b, q), q), base)
      y == IF Less(p, Div(IntV(1), d)) THEN Mul(b, MathPow(p, IntV(2)))
           ELSE IF Less(p, Div(IntV(2), d)) THEN seg(Dec(15, 10), Dec(75, 100))
           ELSE IF Less(p, Div(Dec(25, 10), d)) THEN seg(Dec(225, 100), Dec(9375, 10000))
           ELSE seg(Dec(2625, 1000), Dec(984375, 1000000))
  IN  Add(Neg(y), IntV(1))

Elastic(p0, x0, y0) ==
  LET y == OrElse(y0, IntV(300))
      x == Div(Mul(y, Dec(3, 10)), OrElse(x0, IntV(1)))
      p == Sub(p0, IntV(1))
  IN  Mul(MathPow(IntV(2), Mul(IntV(10), p)),
          MathCos(Div(Mul(Mul(Mul(IntV(2), PI), p), y), x)))

(* ------------------------------- names ---------------------------------- *)
\* a property name is a sequence of characters
UpperCase == {"A", "B", "C", "D", "E", "F", "G", "H", "I", "J", "K", "L", "M",
              "N", "O", "P", "Q", "R", "S", "T", "U", "V", "W", "X", "Y", "Z"}

LowerChar(c) ==
  CASE c = "A" -> "a" [] c = "B" -> "b" [] c = "C" -> "c" [] c = "D" -> "d"
    [] c = "E" -> "e" [] c = "F" -> "f" [] c = "G" -> "g" [] c = "H" -> "h"
    [] c = "I" -> "i" [] c = "J" -> "j" [] c = "K" -> "k" [] c = "L" -> "l"
    [] c = "M" -> "m" [] c = "N" -> "n" [] c = "O" -> "o" [] c = "P" -> "p"
    [] c = "Q" -> "q" [] c = "R" -> "r" [] c = "S" -> "s" [] c = "T" -> "t"
    [] c = "U" -> "u" [] c = "V" -> "v" [] c = "W" -> "w" [] c = "X" -> "x"
    [] c = "Y" -> "y" [] c = "Z" -> "z" [] OTHER -> c

\* String.toLowerCase
toLowerCase(s) == [i \in 1..Len(s) |-> LowerChar(s[i])]

\* type.test(/^[A-Z]/)
StartsUpper(s) == Len(s) > 0 /\ s[1] \in UpperCase

\* the suffixes of the array ['In', 'Out', 'InOut']
Modes == <<"In", "Out", "InOut">>
ModeChars(mode) ==
  CASE mode = "In" -> <<"I", "n">>
    [] mode = "Out" -> <<"O", "u", "t">>
    [] mode = "InOut" -> <<"I", "n", "O", "u", "t">>

\* the alias built without lower-casing the name
AliasName_NoLower(type, mode) == type \o ModeChars(mode)

\* type.toLowerCase() + mode
AliasName(type, mode) == toLowerCase(type) \o ModeChars(mode)

N_linear == <<"l", "i", "n", "e", "a", "r">>
N_Pow == <<"P", "o", "w">>
N_Expo == <<"E", "x", "p", "o">>
N_Circ == <<"C", "i", "r", "c">>
N_Sine == <<"S", "i", "n", "e">>
N_Back == <<"B", "a", "c", "k">>
N_Bounce == <<"B", "o", "u", "n", "c", "e">>
N_Elastic == <<"E", "l", "a", "s", "t", "i", "c">>
N_Quad == <<"Q", "u", "a", "d">>
N_Cubic == <<"C", "u", "b", "i", "c">>
N_Quart == <<"Q", "u", "a", "r", "t">>
N_Quint == <<"Q", "u", "i", "n", "t">>

(* ------------------------- function objects ----------------------------- *)
\* A callable is a record [k, id, mode, gen, fs]:
\*   k = "raw":   the function object id (a curve as its author wrote it)
\*   k = "ease":  the closure ease<mode> that CreateTransitionEases made over
\*                the raw function id; gen tells one creation from another
\*   k = "bound": the closure a call of .set returned; fs are the captured
\*                arguments; id, mode, gen name the function it was made for
\*   k = "none":  undefined (no such property)
Fn(k, id, mode, gen, fs) == [k |-> k, id |-> id, mode |-> mode, gen |-> gen, fs |-> fs]
None == Fn("none", "", "", 0, <<>>)
Raw(id) == Fn("raw", id, "", 0, <<>>)
Ease(mode, id, gen) == Fn("ease", id, mode, gen, <<>>)
\* the function a bound closure was made for
TargetOf(b) == IF b.mode = "" THEN Raw(b.id) ELSE Ease(b.mode, b.id, b.gen)

\* the array ['Quad', 'Cubic', 'Quart', 'Quint']
PowerAliases == <<"Quad", "Cubic", "Quart", "Quint">>
PowerNames == <<N_Quad, N_Cubic, N_Quart, N_Quint>>
BuiltinIds == {"linear", "Pow", "Expo", "Circ", "Sine", "Back", "Bounce", "Elastic",
               "Quad", "Cubic", "Quart", "Quint"}
\* curves a caller of extend brings along:
\*   userA = function(p){ return p; }
\*   userB = function(p, x){ return p * x; }
UserIds == {"userA", "userB"}
RawIds == BuiltinIds \cup UserIds

userA(p) == p
userB(p, x) == Mul(p, x)

\* a property read on the registry object Fx.Transitions
Lookup(reg, name) == IF name \in DOMAIN reg THEN reg[name] ELSE None

\* the value of a call that throws a TypeError (calling undefined)
Thrown == Special("TypeError", RZero)

\* the arguments (p, x, y, z) an ease closure hands on
Four(args) == <<Arg(args, 1), Arg(args, 2), Arg(args, 3), Arg(args, 4)>>
\* the same with another progress
WithP(args, p) == <<p, Arg(args, 2), Arg(args, 3), Arg(args, 4)>>

RECURSIVE Apply(_, _, _)

\* the exponent taken as i + 1
PowerAlias_OffByOne(reg, i, args) ==
  Apply(reg, Lookup(reg, N_Pow), <<Arg(args, 1), IntV(i + 1)>>)

\* Pow captured when the file loads instead of read from the registry
PowerAlias_EarlyBound(reg, i, args) ==
  Apply(reg, Raw("Pow"), <<Arg(args, 1), IntV(i + 2)>>)

\* the function registered as Quad, Cubic, Quart, Quint: i is the array index
PowerAlias(reg, i, args) ==
  Apply(reg, Lookup(reg, N_Pow), <<Arg(args, 1), IntV(i + 2)>>)

\* the body of a raw function object
RawBody(reg, id, args) ==
  CASE id = "linear" -> linear(Arg(args, 1), Arg(args, 2), Arg(args, 3))
    [] id = "Pow" -> Pow(Arg(args, 1), Arg(args, 2))
    [] id = "Expo" -> Expo(Arg(args, 1))
    [] id = "Circ" -> Circ(Arg(args, 1))
    [] id = "Sine" -> Sine(Arg(args, 1))
    [] id = "Back" -> Back(Arg(args, 1), Arg(args, 2))
    [] id = "Bounce" -> Bounce(Arg(args, 1))
    [] id = "Elastic" -> Elastic(Arg(args, 1), Arg(args, 2), Arg(args, 3))
    [] id = "Quad" -> PowerAlias(reg, 0, args)
    [] id = "Cubic" -> PowerAlias(reg, 1, args)
    [] id = "Quart" -> PowerAlias(reg, 2, args)
    [] id = "Quint" -> PowerAlias(reg, 3, args)
    [] id = "userA" -> userA(Arg(args, 1))
    [] id = "userB" -> userB(Arg(args, 1), Arg(args, 2))

\* the three closures of CreateTransitionEases over the raw function id
easeIn(reg, id, args) == Apply(reg, Raw(id), Four(args))

\* easeOut without the complement of the progress
easeOut_NoComplement(reg, id, args) ==
  Sub(IntV(1), Apply(reg, Raw(id), Four(args)))

easeOut(reg, id, args) ==
  Sub(IntV(1), Apply(reg, Raw(id), WithP(args, Sub(IntV(1), Arg(args, 1)))))

easeInOutLeft(reg, id, args) ==
  Div(Apply(reg, Raw(id), WithP(args, Mul(IntV(2), Arg(args, 1)))), IntV(2))

\* the right branch written as (1 - raw) / 2
easeInOutRight_One(reg, id, args) ==
  Div(Sub(IntV(1),
          Apply(reg, Raw(id), WithP(args, Mul(IntV(2), Sub(IntV(1), Arg(args, 1)))))),
      IntV(2))

easeInOutRight(reg, id, args) ==
  Div(Sub(IntV(2),
          Apply(reg, Raw(id), WithP(args, Mul(IntV(2), Sub(IntV(1), Arg(args, 1)))))),
      IntV(2))

easeInOut(reg, id, args) ==
  IF Leq(Arg(args, 1), Dec(5, 10)) THEN easeInOutLeft(reg, id, args)
  ELSE easeInOutRight(reg, id, args)

\* the captured arguments put before the arguments of the call
SetTransitionValues_Prepend(reg, b, args) == Apply(reg, TargetOf(b), b.fs \o args)

\* the closure SetTransitionValues returns, called with args:
\* transition.apply(Fx.Transitions, $A(arguments).concat(args))
SetTransitionValues(reg, b, args) == Apply(reg, TargetOf(b), args \o b.fs)

\* a call f(args) with the registry as it is at the time of the call
Apply(reg, f, args) ==
  CASE f.k = "raw" -> RawBody(reg, f.id, args)
    [] f.k = "ease" /\ f.mode = "In" -> easeIn(reg, f.id, args)
    [] f.k = "ease" /\ f.mode = "Out" -> easeOut(reg, f.id, args)
    [] f.k = "ease" /\ f.mode = "InOut" -> easeInOut(reg, f.id, args)
    [] f.k = "bound" -> SetTransitionValues(reg, f, args)
    [] OTHER -> Thrown

(* ------------------------------- state ---------------------------------- *)
VARIABLES
  registry,  \* Fx.Transitions: property name -> callable
  props,     \* per raw function object: ease = the creation stamp of its
             \* easeIn/easeOut/easeInOut members (0: it has none),
             \* set = whether it carries a .set property
  gen,       \* number of CreateTransitionEases calls so far
  bound,     \* the bound curves (results of .set) the caller holds
  last,      \* the latest call: [fn, args, value]
  added,     \* number of keys registered by extend calls after the file
             \* has loaded
  progress,  \* the progress fraction the calls of this run pass
  params,    \* the curve parameters the calls of this run pass after it
  regs,      \* history: name -> the raw functions registered under that
             \* name as a key of an extend call, oldest first
  aliased    \* history: names last written as a compatibility alias

vars == <<registry, props, gen, bound, last, added, progress, params, regs, aliased>>

Put(f, k, v) == [n \in DOMAIN f \cup {k} |-> IF n = k THEN v ELSE f[n]]

Last(s) == s[Len(s)]

(* --------------------------- registration ------------------------------- *)
\* Fx.Shared.CreateTransitionEases(transition, type): the three closures
\* become members of the function object and are stored under the
\* lower-cased aliases; each closure gets its own .set
CreateTransitionEases(st, transition, type) ==
  LET g == st.gen + 1
      r1 == Put(st.registry, AliasName(type, Modes[1]), Ease(Modes[1], transition, g))
      r2 == Put(r1, AliasName(type, Modes[2]), Ease(Modes[2], transition, g))
      r3 == Put(r2, AliasName(type, Modes[3]), Ease(Modes[3], transition, g))
  IN  [st EXCEPT !.gen = g,
                 !.props = [st.props EXCEPT ![transition].ease = g],
                 !.registry = r3,
                 !.aliased = st.aliased \cup {AliasName(type, Modes[i]) : i \in 1..3}]

\* a turn of the loop that keeps an entry already present
ExtendEntry_FirstWins(st, type, transition) ==
  LET st1 == IF StartsUpper(type) THEN CreateTransitionEases(st, transition, type)
             ELSE [st EXCEPT !.props = [st.props EXCEPT ![transition].set = TRUE]]
      old == IF type \in DOMAIN st.regs THEN st.regs[type] ELSE <<>>
      kept == IF type \in DOMAIN st.registry THEN st.registry[type] ELSE Raw(transition)
  IN  [st1 EXCEPT !.registry = Put(st1.registry, type, kept),
                  !.regs = Put(st1.regs, type, Append(old, transition)),
                  !.aliased = st1.aliased \ {type}]

\* one turn of the loop of Fx.Transitions.extend
ExtendEntry(st, type, transition) ==
  LET st1 == IF StartsUpper(type) THEN CreateTransitionEases(st, transition, type)
             ELSE [st EXCEPT !.props = [st.props EXCEPT ![transition].set = TRUE]]
      old == IF type \in DOMAIN st.regs THEN st.regs[type] ELSE <<>>
  IN  [st1 EXCEPT !.registry = Put(st1.registry, type, Raw(transition)),
                  !.regs = Put(st1.regs, type, Append(old, transition)),
                  !.aliased = st1.aliased \ {type}]

\* Fx.Transitions.extend(transitions): transitions is the sequence of the
\* object's <<key, function>> pairs in enumeration order
RECURSIVE extend(_, _)
extend(st, transitions) ==
  IF transitions = <<>> THEN st
  ELSE extend(ExtendEntry(st, transitions[1][1], transitions[1][2]), Tail(transitions))

\* new Abstract({linear: ...}): linear is stored as written, without .set
Abstract ==
  [registry |-> (N_linear :> Raw("linear")),
   props |-> [id \in RawIds |-> [ease |-> 0, set |-> FALSE]],
   gen |-> 0,
   regs |-> <<>>,
   aliased |-> {}]

\* the extend call of lines 82-222 and the four calls of lines 224-230
Loaded ==
  LET s1 == extend(Abstract, << <<N_Pow, "Pow">>, <<N_Expo, "Expo">>, <<N_Circ, "Circ">>,
                                <<N_Sine, "Sine">>, <<N_Back, "Back">>,
                                <<N_Bounce, "Bounce">>, <<N_Elastic, "Elastic">> >>)
      s2 == extend(s1, << <<PowerNames[1], PowerAliases[1]>> >>)
      s3 == extend(s2, << <<PowerNames[2], PowerAliases[2]>> >>)
      s4 == extend(s3, << <<PowerNames[3], PowerAliases[3]>> >>)
  IN  extend(s4, << <<PowerNames[4], PowerAliases[4]>> >>)

Idle == [fn |-> None, args |-> <<>>, value |-> undefined]

\* the state once the file has been evaluated
Constructed ==
  /\ registry = Loaded.registry
  /\ props = Loaded.props
  /\ gen = Loaded.gen
  /\ regs = Loaded.regs
  /\ aliased = Loaded.aliased
  /\ bound = {}
  /\ last = Idle
  /\ added = 0

Init ==
  /\ Constructed
  /\ progress = Num(RZero)
  /\ params = <<>>

(* ------------------------ members and lookups --------------------------- *)
\* f.ease<mode>, undefined when f has no such member
Member(pr, f, mode) ==
  IF f.k = "raw" /\ pr[f.id].ease > 0 THEN Ease(mode, f.id, pr[f.id].ease) ELSE None

\* whether f.set is a function
HasSet(pr, f) == f.k = "ease" \/ (f.k = "raw" /\ pr[f.id].set)

\* Fx.Transitions[name] for member = "", Fx.Transitions[name].ease<member>
\* otherwise
Resolve(reg, pr, name, member) ==
  IF member = "" THEN Lookup(reg, name) ELSE Member(pr, Lookup(reg, name), member)

(* ------------------------------ actions --------------------------------- *)
\* a call of Fx.Transitions.extend after the file has loaded
Extend(transitions) ==
  LET st == extend([registry |-> registry, props |-> props, gen |-> gen,
                    regs |-> regs, aliased |-> aliased], transitions)
  IN  /\ registry' = st.registry
      /\ props' = st.props
      /\ gen' = st.gen
      /\ regs' = st.regs
      /\ aliased' = st.aliased
      /\ added' = added + Len(transitions)
      /\ UNCHANGED <<bound, last, progress, params>>

\* b = f.set(fs...): the closure of SetTransitionValues(f) builds a new
\* closure over a copy of its arguments; nothing else is written
Set(f, fs) ==
  /\ HasSet(props, f)
  /\ bound' = bound \cup {Fn("bound", f.id, f.mode, f.gen, fs)}
  /\ UNCHANGED <<registry, props, gen, last, added, progress, params, regs, aliased>>

\* f(args...)
Call(f, args) ==
  /\ f.k # "none"
  /\ last' = [fn |-> f, args |-> args, value |-> Apply(registry, f, args)]
  /\ UNCHANGED <<registry, props, gen, bound, added, progress, params, regs, aliased>>

(* ------------------------- inputs of the runs --------------------------- *)
Half == Dec(5, 10)
Grid == {Num(R(k, 2 * GridHalf)) : k \in 0..(2 * GridHalf)}
\* curve parameters a caller passes after the progress
ParamVals == {undefined, IntV(0), IntV(2), IntV(3)}
Supplied == ParamVals \ {undefined}
ParamTuples ==
  {<<>>} \cup {<<x>> : x \in Supplied} \cup {<<x, y>> : x \in ParamVals, y \in Supplied}
Members == {"", "In", "Out", "InOut"}

N_POW == <<"P", "O", "W">>
N_powIn == <<"p", "o", "w", "I", "n">>
N_swing == <<"s", "w", "i", "n", "g">>

\* the keys and functions of the extend calls made after loading
ExtNames == {N_Pow, N_POW, N_powIn}
Entries == ExtNames \X UserIds
DistinctKeys(ts) == \A i, j \in 1..Len(ts) : i # j => ts[i][1] # ts[j][1]
\* the objects of n keys: no key twice
EntrySeqs(n) == {ts \in [1..n -> Entries] : DistinctKeys(ts)}

(* ---------------- registration runs: extend after loading --------------- *)
RegExtend ==
  \E n \in 1..(MaxAdded - added) : \E ts \in EntrySeqs(n) : Extend(ts)

NextRegistry == RegExtend

SpecRegistry == Init /\ [][NextRegistry]_vars

(* ------------- evaluation runs: calls on the loaded registry ------------ *)
InitCurves ==
  /\ Constructed
  /\ progress \in Grid
  /\ params \in ParamTuples

\* the functions reachable from the registry
CurveTargets ==
  {Resolve(registry, props, name, member) : name \in DOMAIN registry, member \in Members}

CurveCall ==
  \E f \in CurveTargets : Call(f, <<progress>> \o params)

NextCurves == CurveCall

SpecCurves == InitCurves /\ [][NextCurves]_vars

(* ------------------- binding runs: .set and calls ----------------------- *)
\* the parameter lists handed to .set
BindTuples == {<<IntV(2)>>, <<IntV(3)>>}
BindNames == {N_Pow, N_swing, N_linear}
\* the functions the caller binds and calls in these runs
BindMembers == {"", "Out"}
BindTargets ==
  {Resolve(registry, props, name, member) : name \in BindNames, member \in BindMembers}

\* the caller registers a bare curve of its own, once
BindExtend ==
  /\ N_swing \notin DOMAIN registry
  /\ \E id \in UserIds : Extend(<< <<N_swing, id>> >>)

BindSet ==
  /\ Cardinality(bound) < MaxBound
  /\ \E f \in BindTargets, fs \in BindTuples : Set(f, fs)

BindGrid == {Num(R(k, GridHalf)) : k \in 0..GridHalf}

InitBinding ==
  /\ Constructed
  /\ progress \in BindGrid
  /\ params = <<>>

BindCall ==
  \/ \E b \in bound : Call(b, <<progress>>)
  \/ \E f \in BindTargets, ps \in {<<>>} \cup BindTuples : Call(f, <<progress>> \o ps)

NextBinding == BindExtend \/ BindSet \/ BindCall

SpecBinding == InitBinding /\ [][NextBinding]_vars

(* ======================= properties of the curves ======================= *)
FamilyIds == BuiltinIds \ {"linear"}
\* the latest call was f(p, ...) of an ease closure of the given mode
CalledEase(mode) == last.fn.k = "ease" /\ last.fn.mode = mode
CalledP == last.args[1]
CalledRest == Tail(last.args)
IsNumber(v) == IsFinite(v)

\* C1 (complement law): whenever easeOut of a family is called with progress
\* p and parameters (x, y, z), the result is 1 - easeIn(1 - p, x, y, z) of the
\* same family with the same parameters.
C1_Complement ==
  CalledEase("Out") =>
    /\ IsNumber(last.value)
    /\ last.value =
         Sub(IntV(1), Apply(registry, Ease("In", last.fn.id, last.fn.gen),
                            <<Sub(IntV(1), CalledP)>> \o CalledRest))

C1_Witness ==
  /\ CalledEase("Out") /\ last.fn.id = "Back"
  /\ last.args = <<Dec(25, 100), IntV(2)>>
  /\ last.value = Dec(859375, 1000000)

\* C2 as stated: with default parameters easeIn(0) = 0 and easeIn(1) = 1 for
\* every built-in family.
C2_Original ==
  (CalledEase("In") /\ last.fn.id \in FamilyIds /\ Len(last.args) = 1) =>
    /\ CalledP = IntV(0) => last.value = IntV(0)
    /\ CalledP = IntV(1) => last.value = IntV(1)

\* C2 (endpoint law, amended): with default parameters easeIn(1) = 1 for every
\* built-in family, and easeIn(0) = 0 for every built-in family except Expo,
\* where it is 2^-8 = 1/256, and Elastic, where it is -(2^-11) = -1/2048.
C2_Endpoints ==
  (CalledEase("In") /\ last.fn.id \in FamilyIds /\ Len(last.args) = 1) =>
    /\ CalledP = IntV(1) => last.value = IntV(1)
    /\ CalledP = IntV(0) =>
         last.value = (CASE last.fn.id = "Expo" -> Dec(1, 256)
                         [] last.fn.id = "Elastic" -> Dec(-1, 2048)
                         [] OTHER -> IntV(0))

C2_Witness ==
  /\ CalledEase("In") /\ last.fn.id = "Expo"
  /\ last.args = <<IntV(0)>>
  /\ last.value = Dec(1, 256)

\* C3 (split continuity): easeInOut(p) is raw(2p)/2 for p <= 1/2 and
\* (2 - raw(2(1 - p)))/2 for p > 1/2; for every built-in family the left
\* branch raw(1)/2 and the right branch (2 - raw(1))/2 agree at p = 1/2, and
\* easeInOut(1/2) = 1/2.
C3_SplitContinuity ==
  (CalledEase("InOut") /\ last.fn.id \in FamilyIds) =>
    LET raw(p) == Apply(registry, Raw(last.fn.id), <<p>> \o CalledRest)
    IN  /\ last.value =
             (IF RLeq(CalledP.a, R(1, 2)) THEN Div(raw(Mul(IntV(2), CalledP)), IntV(2))
              ELSE Div(Sub(IntV(2), raw(Mul(IntV(2), Sub(IntV(1), CalledP)))), IntV(2)))
        /\ CalledP = Half =>
             /\ last.value = Half
             /\ Div(raw(IntV(1)), IntV(2)) = Div(Sub(IntV(2), raw(IntV(1))), IntV(2))
             /\ easeInOutLeft(registry, last.fn.id, last.args) = Half
             /\ easeInOutRight(registry, last.fn.id, last.args) = Half

C3_Witness ==
  /\ CalledEase("InOut") /\ last.fn.id = "Bounce"
  /\ last.args = <<Half>>
  /\ last.value = Half

\* C4: linear called with a progress fraction as its only argument returns
\* that fraction.
C4_LinearIdentity ==
  (last.fn = Raw("linear") /\ Len(last.args) = 1) => last.value = CalledP

\* C6 (power-family identity): a variant registered under Quad, Cubic, Quart
\* or Quint returns, for every progress and whatever further parameters it is
\* given, what the same variant of Pow returns with exponent 2, 3, 4, 5.
C6_PowerFamily ==
  \A i \in 1..4 :
    LET f == Lookup(registry, PowerNames[i])
    IN  (last.fn.k = "ease" /\ last.fn = Member(props, f, last.fn.mode)) =>
          /\ IsNumber(last.value)
          /\ last.value =
               Apply(registry, Member(props, Lookup(registry, N_Pow), last.fn.mode),
                     <<CalledP, IntV(i + 1)>>)
          /\ last.value = Apply(registry, last.fn, <<CalledP>>)

C6_Witness ==
  /\ last.fn = Member(props, Lookup(registry, N_Quint), "Out")
  /\ last.args = <<Dec(5, 10), IntV(3)>>
  /\ last.value = Dec(31, 32)

\* the value of a parameter under the reading "the default replaces an
\* omitted parameter only"
AsSupplied(v, d) == IF v = undefined THEN d ELSE v
\* the value of a parameter under the reading "the default replaces an
\* omitted or zero parameter"
UnlessZero(v, d) == IF v = undefined \/ v = IntV(0) THEN d ELSE v

\* the three parameterised formulas with the parameters x, y already chosen
PowFormula(p, x) == MathPow(p, x)
BackFormula(p, x) == Mul(Mul(p, p), Sub(Mul(Add(x, IntV(1)), p), x))
ElasticFormula(p, a, y) ==
  LET x == Div(Mul(y, Dec(3, 10)), a)
      q == Sub(p, IntV(1))
  IN  Mul(MathPow(IntV(2), Mul(IntV(10), q)),
          MathCos(Div(Mul(Mul(Mul(IntV(2), PI), q), y), x)))

CalledRaw(id) == last.fn = Raw(id)

Unwritten(name) == name \notin DOMAIN regs /\ name \notin aliased /\ name # N_linear
ProbeNames ==
  ExtNames \cup {N_swing, <<"P", "o", "w", "I", "n">>, <<"p", "o", "w", "O", "u", "t">>}

\* the name was registered at least twice, the last time with another function
Reregistered(name) ==
  /\ Len(regs[name]) >= 2
  /\ regs[name][Len(regs[name]) - 1] # Last(regs[name])

\* the members of the family entry under name belong to the raw function id
MembersOf(name, id) ==
  \A i \in 1..3 :
    LET m == Member(props, Lookup(registry, name), Modes[i])
    IN  m.k = "ease" /\ m.id = id /\ m.mode = Modes[i]

\* C7 as stated: once a name has been registered twice, a lookup of the name
\* returns the function of the later registration (and the members of that
\* function when the name is a family); a name never written stays absent.
C7_Original ==
  /\ \A name \in DOMAIN regs :
       Reregistered(name) =>
         /\ Lookup(registry, name) = Raw(Last(regs[name]))
         /\ StartsUpper(name) => MembersOf(name, Last(regs[name]))
  /\ \A name \in ProbeNames : Unwritten(name) => Lookup(registry, name) = None

\* C7 (last write wins, amended): once a name has been registered twice, a
\* lookup of the name returns the function of the later registration (and the
\* members of that function when the name is a family), unless a family whose
\* lower-cased name followed by In, Out or InOut is that name has been
\* registered since; a name never written stays absent.
C7_LastWriteWins ==
  /\ \A name \in DOMAIN regs :
       (Reregistered(name) /\ name \notin aliased) =>
         /\ Lookup(registry, name) = Raw(Last(regs[name]))
         /\ StartsUpper(name) => MembersOf(name, Last(regs[name]))
  /\ \A name \in ProbeNames : Unwritten(name) => Lookup(registry, name) = None

C7_Witness ==
  /\ N_powIn \in DOMAIN regs /\ N_Pow \in DOMAIN regs
  /\ regs[N_powIn] = <<"userA", "userB">>
  /\ Lookup(registry, N_powIn) = Raw("userB")
  /\ regs[N_Pow] = <<"Pow", "userA">>
  /\ Lookup(registry, N_Pow) = Raw("userA")
  /\ Lookup(registry, N_POW) = None

\* the keys of the extend call of a step
KeysOfStep == {n \in DOMAIN regs' : n \notin DOMAIN regs \/ regs'[n] # regs[n]}
\* the aliases CreateTransitionEases writes for the capitalised keys
AliasesOfStep ==
  {toLowerCase(n) \o sfx : n \in {k \in KeysOfStep : k[1] \in UpperCase},
                           sfx \in {<<"I", "n">>, <<"O", "u", "t">>, <<"I", "n", "O", "u", "t">>}}

\* C9 as stated: an extend call changes only the entries under its own keys.
C9_Original ==
  [][\A k \in DOMAIN registry \cup DOMAIN registry' :
       k \notin KeysOfStep => Lookup(registry', k) = Lookup(registry, k)]_vars

\* C9 (registration frame, amended): an extend call that registers a curve
\* under N changes only the entry N and, when N starts with a capital letter,
\* the three alias entries lower(N) + In, Out, InOut; every other entry
\* resolves to the same callable afterwards.
C9_Frame ==
  [][\A k \in DOMAIN registry \cup DOMAIN registry' :
       k \notin (KeysOfStep \cup AliasesOfStep) => Lookup(registry', k) = Lookup(registry, k)]_vars

C9_Witness ==
  /\ N_POW \in DOMAIN regs /\ N_Pow \in DOMAIN regs /\ N_powIn \in DOMAIN regs
  /\ Len(regs[N_Pow]) = 2
  /\ N_powIn \in aliased
  /\ Lookup(registry, <<"e", "x", "p", "o", "I", "n">>) = Ease("In", "Expo", 2)
  /\ Lookup(registry, N_Quad) = Raw("Quad")

\* C10 (late binding): Quad, Cubic, Quart, Quint stay registered as they were
\* loaded, and their easeIn(p) is later(p, n) for n = 2, 3, 4, 5, where later is the
\* raw function most recently registered under Pow.
C10_LateBinding ==
  \A i \in 1..4 :
    LET f == Lookup(registry, PowerNames[i])
        later == Raw(Last(regs[N_Pow]))
    IN  /\ f = Loaded.registry[PowerNames[i]]
        /\ Member(props, f, "In") = Member(Loaded.props, f, "In")
        /\ \A p \in Grid :
             Apply(registry, Member(props, f, "In"), <<p>>) = Apply(registry, later, <<p, IntV(i + 1)>>)

C10_Witness ==
  /\ Last(regs[N_Pow]) = "userB"
  /\ Apply(registry, Member(props, Lookup(registry, N_Cubic), "In"), <<Half>>) = Dec(3, 2)
  /\ Pow(Half, IntV(3)) = Dec(1, 8)

(* ======================= properties of the binder ======================= *)
\* an entry that is a variant or a bare curve (not a family object)
IsVariantOrBare(name) ==
  Lookup(registry, name).k = "ease" \/ (Lookup(registry, name).k = "raw" /\ ~StartsUpper(name))

\* C5 as stated: every registered variant or bare curve c has a .set, and a
\* call b(p) of a closure b = c.set(fs...) returns c(p, fs...).
C5_Original ==
  /\ \A name \in DOMAIN registry :
       IsVariantOrBare(name) => HasSet(props, Lookup(registry, name))
  /\ last.fn.k = "bound" =>
       last.value = Apply(registry, TargetOf(last.fn), last.args \o last.fn.fs)

\* C5 (parameter binding, amended): every variant and every bare curve that
\* was registered through Fx.Transitions.extend (the built-in linear was not
\* and has no .set) has a .set; c.set(fs...) returns a new callable b with
\* b(p) = c(p, fs...); making b changes neither c nor the registry nor the
\* closures made before, and neither a .set nor a call changes the result of
\* any bound closure or of c called with its defaults.
C5_Binding ==
  [][/\ \A name \in DOMAIN registry :
          (IsVariantOrBare(name) /\ name # N_linear) => HasSet(props, Lookup(registry, name))
     /\ (last'.fn.k = "bound" /\ last' # last) =>
          last'.value = Apply(registry, TargetOf(last'.fn), <<progress>> \o last'.fn.fs)
     /\ added' = added =>
          /\ registry' = registry /\ props' = props /\ bound \subseteq bound'
          /\ \A b \in bound' \ bound : b.k = "bound" /\ HasSet(props, TargetOf(b))
          /\ \A b \in bound :
               Apply(registry', b, <<progress>>) = Apply(registry, b, <<progress>>)
          /\ \A f \in BindTargets :
               f.k # "none" => Apply(registry', f, <<progress>>) = Apply(registry, f, <<progress>>)]_vars

C5_Witness ==
  LET c == Member(props, Lookup(registry, N_Pow), "Out")
      b2 == Fn("bound", c.id, c.mode, c.gen, <<IntV(2)>>)
      b3 == Fn("bound", c.id, c.mode, c.gen, <<IntV(3)>>)
  IN  /\ bound = {b2, b3}
      /\ progress = Half
      /\ last = [fn |-> b3, args |-> <<Half>>, value |-> Dec(7, 8)]
      /\ Apply(registry, b2, <<Half>>) = Dec(3, 4)
      /\ Apply(registry, c, <<Half>>) = Dec(63, 64)

====
